---- MODULE Spec2Model ----
(***************************************************************************)
(* A model of fio-buffer (src/fio_buffer/core.py): the `buffer` command,   *)
(* its option checks and CRS fall backs, the per-feature `_processor`, and *)
(* the multiprocessing.Pool(jobs).imap_unordered fan-out that feeds the    *)
(* write loop.                                                             *)
(*                                                                         *)
(* The geometry libraries are outside the repository.  A geometry is a     *)
(* term: the input geometry plus the sequence of library operations that   *)
(* were applied to it, so that two geometries are equal exactly when the   *)
(* same operations were applied with the same arguments in the same order. *)
(* Whether a library call raises is a function of the geometry (its        *)
(* `kind`), fixed by the input dataset.                                    *)
(***************************************************************************)
EXTENDS Integers, Sequences, FiniteSets, TLC

----------------------------------------------------------------------------
(* Bounds of the model *)

MaxFeats == 2
MaxJobs == 2

----------------------------------------------------------------------------
(* Python values *)

\* Python's None where the other values are strings (CLI options not given)
None == "<None>"

\* Python's None where the other values are records (a null property value,
\* the implicit return value of a function)
PyNone == [none |-> TRUE]

Num(n) == [num |-> n]

Name(s) == [name |-> s]

\* isinstance(x, (float, int))
IsNumber(x) == DOMAIN x = {"num"}

\* bool(x) for the strings and None: None and the empty string/dict are false
Truthy(x) == x \notin {None, ""}

\* the expression `a or b`
Or(a, b) == IF Truthy(a) THEN a ELSE b

----------------------------------------------------------------------------
(* Click callbacks *)

\* float(value) succeeds on these strings
FloatOf == [s \in {"10"} |-> 10]

_cb_dist(value) ==
    IF value \in DOMAIN FloatOf THEN Num(FloatOf[value]) ELSE Name(value)

\* option defaults
DefaultCapStyle == "round"

DefaultJoinStyle == "round"

DefaultRes == 16

DefaultMitreLimit == 5

DefaultGeomType == "MultiPolygon"

----------------------------------------------------------------------------
(* The external geometry libraries *)

GeomKinds == {"valid", "no_reproject", "no_buffer", "no_reproject_back", "no_write"}

Geometry(kind) == [kind |-> kind, ops |-> <<>>]

\* fiona.transform.transform_geom(src_crs, dst_crs, geom, antimeridian_cutting=True)
transform_geom(src_crs, dst_crs, geom) ==
    [geom EXCEPT !.ops = Append(@, [op |-> "transform", src |-> src_crs, dst |-> dst_crs])]

transform_geom_raises(src_crs, dst_crs, geom) ==
    \/ geom.kind = "no_reproject" /\ geom.ops = <<>>
    \/ geom.kind = "no_reproject_back" /\ geom.ops # <<>>

\* shape(geom).buffer(**buf_args), mapped back to GeoJSON
shape_buffer(geom, buf_args) ==
    [geom EXCEPT !.ops = Append(@, [op |-> "buffer", args |-> buf_args])]

shape_buffer_raises(geom, buf_args) ==
    \/ geom.kind = "no_buffer"
    \/ ~IsNumber(buf_args.distance)

\* dst.write(feat)
write_raises(feat) == feat.geometry.kind = "no_write"

----------------------------------------------------------------------------
(* _processor *)

Returned(val, buf_args) == [ret |-> "return", val |-> val, buf_args |-> buf_args]

Raised(exc, buf_args) == [ret |-> "raise", val |-> exc, buf_args |-> buf_args]

ProcessorExceptSwallows(skip_failures, buf_args) == Returned(PyNone, buf_args)

\* the except clause of _processor
ProcessorExcept(skip_failures, buf_args) ==
    IF ~skip_failures
    THEN Raised("Exception", buf_args)
    ELSE Returned(PyNone, buf_args)

ProcessorTryBackFromSrc(feat, src_crs, buf_crs, dst_crs, skip_failures, buf_args) ==
    IF transform_geom_raises(src_crs, buf_crs, feat.geometry)
    THEN ProcessorExcept(skip_failures, buf_args)
    ELSE LET reprojected == transform_geom(src_crs, buf_crs, feat.geometry) IN
         IF shape_buffer_raises(reprojected, buf_args)
         THEN ProcessorExcept(skip_failures, buf_args)
         ELSE LET buffered == shape_buffer(reprojected, buf_args) IN
              IF transform_geom_raises(src_crs, dst_crs, buffered)
              THEN ProcessorExcept(skip_failures, buf_args)
              ELSE Returned([feat EXCEPT !.geometry = transform_geom(src_crs, dst_crs, buffered)],
                            buf_args)

\* the try block of _processor, run with the resolved buf_args
ProcessorTry(feat, src_crs, buf_crs, dst_crs, skip_failures, buf_args) ==
    IF transform_geom_raises(src_crs, buf_crs, feat.geometry)
    THEN ProcessorExcept(skip_failures, buf_args)
    ELSE LET reprojected == transform_geom(src_crs, buf_crs, feat.geometry) IN
         IF shape_buffer_raises(reprojected, buf_args)
         THEN ProcessorExcept(skip_failures, buf_args)
         ELSE LET buffered == shape_buffer(reprojected, buf_args) IN
              IF transform_geom_raises(buf_crs, dst_crs, buffered)
              THEN ProcessorExcept(skip_failures, buf_args)
              ELSE Returned([feat EXCEPT !.geometry = transform_geom(buf_crs, dst_crs, buffered)],
                            buf_args)

_processorNoNullCheck(args) ==
    LET feat == args.feat
        buf_args == args.buf_args
    IN  IF ~IsNumber(buf_args.distance)
        THEN IF buf_args.distance.name \notin DOMAIN feat.properties
             THEN Raised("KeyError", buf_args)
             ELSE ProcessorTry(feat, args.src_crs, args.buf_crs, args.dst_crs,
                               args.skip_failures,
                               [buf_args EXCEPT !.distance =
                                    feat.properties[buf_args.distance.name]])
        ELSE ProcessorTry(feat, args.src_crs, args.buf_crs, args.dst_crs,
                          args.skip_failures, buf_args)

\* _processor(args): what it returns or raises, and the args['buf_args'] dict
\* as the call leaves it
_processor(args) ==
    LET feat == args.feat
        buf_args == args.buf_args
    IN  IF ~IsNumber(buf_args.distance)
        THEN IF buf_args.distance.name \notin DOMAIN feat.properties
             THEN Raised("KeyError", buf_args)
             ELSE LET field_val == feat.properties[buf_args.distance.name] IN
                  IF field_val = PyNone
                  THEN Returned(feat, buf_args)
                  ELSE ProcessorTry(feat, args.src_crs, args.buf_crs, args.dst_crs,
                                    args.skip_failures,
                                    [buf_args EXCEPT !.distance = field_val])
        ELSE ProcessorTry(feat, args.src_crs, args.buf_crs, args.dst_crs,
                          args.skip_failures, buf_args)

----------------------------------------------------------------------------
(* Inputs *)

FieldValues == {PyNone, Num(1), Num(2)}

Feature(id, val, kind) ==
    [id |-> id, properties |-> [distance |-> val], geometry |-> Geometry(kind)]

\* the input datasets: features carry their position as identifier
FeatureSeqs ==
    UNION {[1..n -> FieldValues \X GeomKinds] : n \in 0..MaxFeats}

Features(fs) == [i \in DOMAIN fs |-> Feature(i, fs[i][1], fs[i][2])]

\* --src-crs, --buf-crs, --dst-crs, --driver: not given, or a value
SrcCrsOpts == {None, "EPSG:4269"}

BufCrsOpts == {None, "EPSG:3857"}

DstCrsOpts == {None, "EPSG:32618"}

DriverOpts == {None, "ESRI Shapefile"}

\* the CRS the input dataset declares; empty when it declares none
FileCrs == {"", "EPSG:4326"}

\* datasets of valid features that all carry the same distance
PlainSeqs == {fs \in FeatureSeqs : \A i \in DOMAIN fs : fs[i] = <<Num(1), "valid">>}

DistanceArgs == {"10", "distance", "magnitude"}

----------------------------------------------------------------------------
(* State *)

VARIABLES
    opts,       \* the command's parameters, after the click callbacks
    src,        \* the input dataset: driver, crs, features
    pc,         \* position of the main process in buffer()
    exit_code,  \* exit status of the command, -1 while it runs
    src_crs,    \* the locals of buffer() after the fall backs
    buf_crs,
    dst_crs,
    dst,        \* the output dataset: PyNone until opened, then its meta
    written,    \* the features written to the output dataset, in order
    buf_args,   \* the buf_args dict of the main process
    next_feat,  \* position of task_generator in src
    taskq,      \* tasks pickled to the pool, not yet taken by a worker
    inflight,   \* tasks the workers hold
    resultq,    \* results pickled back, not yet pulled by the main loop
    o_feat,     \* the loop variable of the write loop
    calls       \* per feature id, number of _processor calls made for it

vars == <<opts, src, pc, exit_code, src_crs, buf_crs, dst_crs, dst, written,
          buf_args, next_feat, taskq, inflight, resultq, o_feat, calls>>

config == <<opts, src>>

locals == <<src_crs, buf_crs, dst_crs>>

pool == <<next_feat, taskq, inflight, resultq, calls>>

InitWith(srcOpts, bufOpts, dstOpts, fileCrs, driverOpts, datasets) ==
    /\ opts \in [driver : driverOpts,
                 cap_style : {DefaultCapStyle},
                 join_style : {DefaultJoinStyle},
                 res : {DefaultRes},
                 mitre_limit : {DefaultMitreLimit},
                 distance : {_cb_dist(d) : d \in DistanceArgs},
                 src_crs : srcOpts,
                 buf_crs : bufOpts,
                 dst_crs : dstOpts,
                 output_geom_type : {DefaultGeomType},
                 skip_failures : BOOLEAN,
                 jobs : 1..MaxJobs]
    /\ src \in [driver : {"GeoJSON"},
                crs : fileCrs,
                feats : {Features(fs) : fs \in datasets}]
    /\ pc = "start"
    /\ exit_code = -1
    /\ src_crs = opts.src_crs
    /\ buf_crs = opts.buf_crs
    /\ dst_crs = opts.dst_crs
    /\ dst = PyNone
    /\ written = <<>>
    /\ buf_args = PyNone
    /\ next_feat = 1
    /\ taskq = <<>>
    /\ inflight = {}
    /\ resultq = <<>>
    /\ o_feat = PyNone
    /\ calls = [i \in DOMAIN src.feats |-> 0]

\* the properties of a dataset vary only where the run reads them: when the
\* distance is a number or names no property, they are left null
UnreadFieldsAreNull ==
    \A i \in DOMAIN src.feats :
        \/ /\ ~IsNumber(opts.distance)
           /\ opts.distance.name \in DOMAIN src.feats[i].properties
        \/ \A name \in DOMAIN src.feats[i].properties :
              src.feats[i].properties[name] = PyNone

\* every dataset, read with its own CRS and driver and buffered in another CRS
Init ==
    /\ InitWith({None}, {"EPSG:3857"}, DstCrsOpts, {"EPSG:4326"}, {None}, FeatureSeqs)
    /\ UnreadFieldsAreNull

\* every combination of the CRS and driver options, over plain datasets
InitCfg ==
    InitWith(SrcCrsOpts \cup {""}, BufCrsOpts \cup {""}, DstCrsOpts \cup {""},
             FileCrs, DriverOpts, PlainSeqs)

----------------------------------------------------------------------------
(* buffer(): option check, CRS fall backs, opening the output *)

DstWithoutBufInverted(dst_opt, buf_opt) == Truthy(dst_opt) /\ Truthy(buf_opt)

\* `dst_crs and not buf_crs`
DstWithoutBuf(dst_opt, buf_opt) == Truthy(dst_opt) /\ ~Truthy(buf_opt)

\* raise click.ClickException / an uncaught exception: the command exits 1
Abort ==
    /\ pc' = "exit"
    /\ exit_code' = 1

CheckOptions ==
    /\ pc = "start"
    /\ IF DstWithoutBuf(dst_crs, buf_crs)
       THEN Abort
       ELSE pc' = "open_src" /\ UNCHANGED exit_code
    /\ UNCHANGED <<config, locals, dst, written, buf_args, pool, o_feat>>

ResolveSrcCrs(src_opt, file_crs) == Or(src_opt, file_crs)

ResolveBufCrs(buf_opt, resolved_src) == Or(buf_opt, resolved_src)

ResolveDstCrsNoFallBack(dst_opt, resolved_src) == dst_opt

ResolveDstCrs(dst_opt, resolved_src) == Or(dst_opt, resolved_src)

OpenSrc ==
    /\ pc = "open_src"
    /\ src_crs' = ResolveSrcCrs(src_crs, src.crs)
    /\ buf_crs' = ResolveBufCrs(buf_crs, src_crs')
    /\ dst_crs' = ResolveDstCrs(dst_crs, src_crs')
    /\ IF ~Truthy(src_crs')
       THEN Abort
       ELSE pc' = "open_dst" /\ UNCHANGED exit_code
    /\ UNCHANGED <<config, dst, written, buf_args, pool, o_feat>>

Meta(driver_opt, src_driver, crs, geom_type) ==
    [driver |-> Or(driver_opt, src_driver), crs |-> crs, geometry |-> geom_type]

BufArgs(o) ==
    [distance |-> o.distance,
     resolution |-> o.res,
     cap_style |-> o.cap_style,
     join_style |-> o.join_style,
     mitre_limit |-> o.mitre_limit]

OpenDst ==
    /\ pc = "open_dst"
    /\ dst' = Meta(opts.driver, src.driver, dst_crs, opts.output_geom_type)
    /\ buf_args' = BufArgs(opts)
    /\ pc' = "loop"
    /\ UNCHANGED <<config, locals, exit_code, written, pool, o_feat>>

----------------------------------------------------------------------------
(* Pool(jobs).imap_unordered(_processor, task_generator) *)

Task(feat) ==
    [feat |-> feat,
     src_crs |-> src_crs,
     buf_crs |-> buf_crs,
     dst_crs |-> dst_crs,
     skip_failures |-> opts.skip_failures,
     buf_args |-> buf_args]

\* the pool's task thread pulls the next task from task_generator and pickles
\* it, on its own, to the workers
Dispatch ==
    /\ pc \in {"loop", "body"}
    /\ next_feat <= Len(src.feats)
    /\ taskq' = Append(taskq, Task(src.feats[next_feat]))
    /\ next_feat' = next_feat + 1
    /\ UNCHANGED <<config, locals, pc, exit_code, dst, written, buf_args,
                   inflight, resultq, o_feat, calls>>

HasIdleWorkerOffByOne(busy, jobs) == busy <= jobs

\* Pool(jobs) runs `jobs` worker processes, each holding one task at a time
HasIdleWorker(busy, jobs) == busy < jobs

\* an idle worker takes the oldest task
Take ==
    /\ pc \in {"loop", "body"}
    /\ taskq # <<>>
    /\ HasIdleWorker(Cardinality(inflight), opts.jobs)
    /\ inflight' = inflight \cup {Head(taskq)}
    /\ taskq' = Tail(taskq)
    /\ UNCHANGED <<config, locals, pc, exit_code, dst, written, buf_args,
                   next_feat, resultq, o_feat, calls>>

AfterCallShared(main_buf_args, worker_buf_args) == worker_buf_args

\* the main process's buf_args after a worker ran _processor on its unpickled
\* copy of the task and left `worker_buf_args` in that copy
AfterCall(main_buf_args, worker_buf_args) == main_buf_args

StillHeldKeepsTask(tasks, task) == tasks

\* the tasks the workers hold once `task` is done: a task is run once
StillHeld(tasks, task) == tasks \ {task}

\* a worker runs _processor on its task and sends back what it returned or raised
Process(task) ==
    /\ pc \in {"loop", "body"}
    /\ task \in inflight
    /\ LET r == _processor(task) IN
       /\ resultq' = Append(resultq, [i |-> task.feat.id, ret |-> r.ret, val |-> r.val])
       /\ buf_args' = AfterCall(buf_args, r.buf_args)
    /\ inflight' = StillHeld(inflight, task)
    /\ calls' = [calls EXCEPT ![task.feat.id] = @ + 1]
    /\ UNCHANGED <<config, locals, pc, exit_code, dst, written, next_feat,
                   taskq, o_feat>>

\* `for o_feat in ...`: the iterator yields the next result, or raises what
\* the worker raised
NextResult ==
    /\ pc = "loop"
    /\ resultq # <<>>
    /\ resultq' = Tail(resultq)
    /\ IF Head(resultq).ret = "raise"
       THEN Abort /\ UNCHANGED o_feat
       ELSE /\ o_feat' = Head(resultq).val
            /\ pc' = "body"
            /\ UNCHANGED exit_code
    /\ UNCHANGED <<config, locals, dst, written, buf_args, next_feat, taskq,
                   inflight, calls>>

\* the body of the write loop
WriteResult ==
    /\ pc = "body"
    /\ IF o_feat # PyNone
       THEN IF write_raises(o_feat)
            THEN IF ~opts.skip_failures
                 THEN Abort /\ UNCHANGED written
                 ELSE pc' = "loop" /\ UNCHANGED <<exit_code, written>>
            ELSE /\ written' = Append(written, o_feat)
                 /\ pc' = "loop"
                 /\ UNCHANGED exit_code
       ELSE pc' = "loop" /\ UNCHANGED <<exit_code, written>>
    /\ UNCHANGED <<config, locals, dst, buf_args, pool, o_feat>>

\* the iterator is exhausted: every task was generated and every result pulled
Finish ==
    /\ pc = "loop"
    /\ next_feat > Len(src.feats)
    /\ taskq = <<>>
    /\ inflight = {}
    /\ resultq = <<>>
    /\ pc' = "exit"
    /\ exit_code' = 0
    /\ UNCHANGED <<config, locals, dst, written, buf_args, pool, o_feat>>

Next ==
    \/ CheckOptions
    \/ OpenSrc
    \/ OpenDst
    \/ Dispatch
    \/ Take
    \/ \E task \in inflight : Process(task)
    \/ NextResult
    \/ WriteResult
    \/ Finish

Spec == Init /\ [][Next]_vars

SpecCfg == InitCfg /\ [][Next]_vars

----------------------------------------------------------------------------
(* Vocabulary of the properties *)

\* an option is given when it carries a non-empty value
Given(opt) == opt # None /\ opt # ""

Exited == pc = "exit"

OutputOpened == dst # PyNone

NoTaskDispatched ==
    /\ next_feat = 1
    /\ taskq = <<>>
    /\ inflight = {}
    /\ resultq = <<>>
    /\ \A i \in DOMAIN calls : calls[i] = 0

DstCrsWithoutBufCrs == Given(opts.dst_crs) /\ ~Given(opts.buf_crs)

NoSourceCrs == ~Given(opts.src_crs) /\ ~Given(src.crs)

----------------------------------------------------------------------------
(* C1 *)

\* C1: when --dst-crs is given without --buf-crs, or neither --src-crs nor
\* the input dataset supplies a source CRS, the command never gets past its
\* checks: it exits with a non-zero code, the output dataset is never opened,
\* nothing is written and no task is dispatched to the pool.
C1_ConfigErrorLeavesOutputUntouched ==
    (DstCrsWithoutBufCrs \/ NoSourceCrs) =>
        /\ ~OutputOpened
        /\ written = <<>>
        /\ NoTaskDispatched
        /\ \/ pc = "start"
           \/ pc = "open_src" /\ ~DstCrsWithoutBufCrs
           \/ Exited /\ exit_code # 0

C1_Witness ==
    /\ DstCrsWithoutBufCrs
    /\ ~NoSourceCrs
    /\ Len(src.feats) > 0
    /\ Exited
    /\ exit_code = 1

----------------------------------------------------------------------------
(* C9 *)

ExpectedSrcCrs == IF Given(opts.src_crs) THEN opts.src_crs ELSE src.crs

ExpectedBufCrs == IF Given(opts.buf_crs) THEN opts.buf_crs ELSE ExpectedSrcCrs

ExpectedDstCrs == IF Given(opts.dst_crs) THEN opts.dst_crs ELSE ExpectedSrcCrs

\* C9: once the output dataset is opened, the source CRS is --src-crs if
\* given, else the input dataset's CRS; the buffer CRS is --buf-crs if given,
\* else the source CRS; the destination CRS is --dst-crs if given, else the
\* source CRS; the output dataset declares the destination CRS, and the input
\* dataset's driver when --driver is not given.  Every task carries the same
\* three CRSs.
C9_CrsResolution ==
    OutputOpened =>
        /\ src_crs = ExpectedSrcCrs
        /\ buf_crs = ExpectedBufCrs
        /\ dst_crs = ExpectedDstCrs
        /\ dst.crs = ExpectedDstCrs
        /\ dst.driver = IF Given(opts.driver) THEN opts.driver ELSE src.driver
        /\ \A k \in DOMAIN taskq :
              /\ taskq[k].src_crs = ExpectedSrcCrs
              /\ taskq[k].buf_crs = ExpectedBufCrs
              /\ taskq[k].dst_crs = ExpectedDstCrs

\* the destination CRS falls back to the source CRS although a different
\* buffer CRS is given, and the driver is inherited
C9_Witness ==
    /\ OutputOpened
    /\ ~Given(opts.dst_crs)
    /\ Given(opts.buf_crs)
    /\ ~Given(opts.src_crs)
    /\ opts.driver = None
    /\ dst.crs = src.crs
    /\ dst.driver = src.driver
    /\ taskq # <<>>

----------------------------------------------------------------------------
(* Vocabulary of the per-feature properties *)

NumFeats == Len(src.feats)

ByField == DOMAIN opts.distance = {"name"}

MissingField(f) == ByField /\ opts.distance.name \notin DOMAIN f.properties

NullDistance(f) ==
    /\ ByField
    /\ opts.distance.name \in DOMAIN f.properties
    /\ f.properties[opts.distance.name] = PyNone

ResolvesToNumber(f) == ~MissingField(f) /\ ~NullDistance(f)

\* the distance the feature is meant to be buffered by
OwnDistance(f) ==
    IF ByField THEN f.properties[opts.distance.name] ELSE opts.distance

StepsSucceed(f) ==
    f.geometry.kind \notin {"no_reproject", "no_buffer", "no_reproject_back"}

ProcessingFails(f) == MissingField(f) \/ (ResolvesToNumber(f) /\ ~StepsSucceed(f))

WriteFails(f) == ~ProcessingFails(f) /\ f.geometry.kind = "no_write"

SuppliedBufArgs(distance) ==
    [distance |-> distance,
     resolution |-> opts.res,
     cap_style |-> opts.cap_style,
     join_style |-> opts.join_style,
     mitre_limit |-> opts.mitre_limit]

ExpectedGeometry(f) ==
    transform_geom(ExpectedBufCrs, ExpectedDstCrs,
        shape_buffer(
            transform_geom(ExpectedSrcCrs, ExpectedBufCrs, f.geometry),
            SuppliedBufArgs(OwnDistance(f))))

\* what the output is meant to hold for an input feature that does not fail
ExpectedFeature(f) ==
    IF NullDistance(f)
    THEN f
    ELSE [id |-> f.id, properties |-> f.properties, geometry |-> ExpectedGeometry(f)]

IsWritten(feat) == \E k \in DOMAIN written : written[k] = feat

CompletedNormally == Exited /\ exit_code = 0

----------------------------------------------------------------------------
(* C2 *)

\* C2: for every task whose distance resolves to a number and whose steps all
\* succeed, _processor returns the input feature with the same identifier and
\* properties and with geometry
\* transform(buf -> dst, buffer(transform(src -> buf, geometry), parameters)).
C2_ProcessorPipeline ==
    \A k \in DOMAIN resultq :
        LET f == src.feats[resultq[k].i] IN
        (ResolvesToNumber(f) /\ StepsSucceed(f)) =>
            /\ resultq[k].ret = "return"
            /\ resultq[k].val =
                  [id |-> f.id, properties |-> f.properties,
                   geometry |-> ExpectedGeometry(f)]

\* a feature buffered by its field value went through three distinct CRSs
C2_Witness ==
    /\ ByField
    /\ ExpectedSrcCrs # ExpectedBufCrs
    /\ ExpectedBufCrs # ExpectedDstCrs
    /\ ExpectedSrcCrs # ExpectedDstCrs
    /\ \E k \in DOMAIN resultq :
          /\ ResolvesToNumber(src.feats[resultq[k].i])
          /\ resultq[k].ret = "return"
          /\ resultq[k].val # PyNone
          /\ Len(resultq[k].val.geometry.ops) = 3

----------------------------------------------------------------------------
(* C3 *)

\* C3: when the distance is a property name and the property is null on a
\* feature, _processor returns the feature as it was read, whatever was
\* processed before it; what is written for it is the feature as it was read;
\* and at normal completion it is in the output unless its own write failed.
C3_NullDistancePassesThrough ==
    /\ \A k \in DOMAIN resultq :
          NullDistance(src.feats[resultq[k].i]) =>
              /\ resultq[k].ret = "return"
              /\ resultq[k].val = src.feats[resultq[k].i]
    /\ \A k \in DOMAIN written :
          NullDistance(src.feats[written[k].id]) =>
              written[k] = src.feats[written[k].id]
    /\ CompletedNormally =>
          \A i \in 1..NumFeats :
              (NullDistance(src.feats[i]) /\ src.feats[i].geometry.kind # "no_write") =>
                  IsWritten(src.feats[i])

\* a null-distance feature written after a feature that was buffered by its
\* own field value
C3_Witness ==
    /\ CompletedNormally
    /\ Len(written) = 2
    /\ ~NullDistance(src.feats[written[1].id])
    /\ written[1].geometry.ops # <<>>
    /\ NullDistance(src.feats[written[2].id])
    /\ written[2] = src.feats[written[2].id]

----------------------------------------------------------------------------
(* C4 *)

\* C4: an exception in any of the steps 1-4 of _processor (distance lookup,
\* reprojection, buffering, reprojection back) is caught: with skip-failures
\* the call returns None and raises nothing, without it the call raises.
C4_EveryStepIsCaught ==
    \A k \in DOMAIN resultq :
        ProcessingFails(src.feats[resultq[k].i]) =>
            IF opts.skip_failures
            THEN resultq[k].ret = "return" /\ resultq[k].val = PyNone
            ELSE resultq[k].ret = "raise"

----------------------------------------------------------------------------
(* C5 *)

\* the main loop sees an error: the iterator raises, or dst.write() raises
ErrorObserved ==
    \/ /\ pc = "loop"
       /\ resultq # <<>>
       /\ Head(resultq).ret = "raise"
       /\ resultq' = Tail(resultq)
    \/ /\ pc = "body"
       /\ pc' # "body"
       /\ o_feat # PyNone
       /\ o_feat.geometry.kind = "no_write"

IsPrefix(s, t) == Len(s) <= Len(t) /\ SubSeq(t, 1, Len(s)) = s

C5_NoFailureGoesUnnoticed ==
    (~opts.skip_failures /\ CompletedNormally) =>
        \A i \in 1..NumFeats :
            ~ProcessingFails(src.feats[i]) /\ ~WriteFails(src.feats[i])

C5_AbortStep ==
    /\ (~opts.skip_failures /\ ErrorObserved) =>
          /\ pc' = "exit"
          /\ exit_code' # 0
          /\ written' = written
    /\ Exited => (Exited' /\ written' = written /\ exit_code' = exit_code)
    /\ IsPrefix(written, written')

\* C5: without skip-failures, the first processing or write error the main
\* loop observes ends the run with a non-zero exit; no run that had a failing
\* feature completes normally; nothing is written once the run has ended,
\* pending results stay unread, and what was written is never taken back.
C5_FirstErrorAborts ==
    /\ []C5_NoFailureGoesUnnoticed
    /\ [][C5_AbortStep]_vars

\* aborted after one feature was written
C5_Witness ==
    /\ ~opts.skip_failures
    /\ Exited
    /\ exit_code = 1
    /\ OutputOpened
    /\ Len(written) = 1
    /\ calls[written[1].id] = 1

----------------------------------------------------------------------------
(* C6 *)

InInputOrder ==
    \A k \in 1..(Len(written) - 1) : written[k].id < written[k + 1].id

NoFailures ==
    \A i \in 1..NumFeats :
        ~ProcessingFails(src.feats[i]) /\ ~WriteFails(src.feats[i])

\* C6: with one job the output is in input order; with more jobs and no
\* failures the completed output holds each processed input feature exactly
\* once, in any order.
C6_OutputOrder ==
    /\ opts.jobs = 1 => InInputOrder
    /\ (opts.jobs > 1 /\ NoFailures /\ Exited /\ OutputOpened) =>
          /\ Len(written) = NumFeats
          /\ \A i \in 1..NumFeats : IsWritten(ExpectedFeature(src.feats[i]))

\* two workers finished in the opposite order
C6_Witness ==
    /\ opts.jobs = 2
    /\ CompletedNormally
    /\ Len(written) = 2
    /\ written[1].id = 2
    /\ written[2].id = 1

----------------------------------------------------------------------------
(* C7 *)

\* C7: the buffer parameters every task is handed are the ones given on the
\* command line, whatever was processed before; so with a field name as the
\* distance each feature is buffered by its own field value.
C7_TasksOwnTheirParameters ==
    /\ OutputOpened => buf_args = SuppliedBufArgs(opts.distance)
    /\ \A k \in DOMAIN taskq : taskq[k].buf_args = SuppliedBufArgs(opts.distance)
    /\ \A t \in inflight : t.buf_args = SuppliedBufArgs(opts.distance)
    /\ \A k \in DOMAIN resultq :
          LET f == src.feats[resultq[k].i] IN
          (ByField /\ ResolvesToNumber(f) /\ StepsSucceed(f)) =>
              /\ resultq[k].ret = "return"
              /\ resultq[k].val # PyNone
              /\ resultq[k].val.geometry.ops[2].args.distance =
                    f.properties[opts.distance.name]

\* two features with different field values, the second dispatched after
\* the first was processed
C7_Witness ==
    /\ ByField
    /\ NumFeats = 2
    /\ calls[1] = 1
    /\ taskq = <<>>
    /\ next_feat = 3
    /\ \E t \in inflight :
          /\ t.feat.id = 2
          /\ ResolvesToNumber(src.feats[1])
          /\ ResolvesToNumber(t.feat)
          /\ src.feats[1].properties # t.feat.properties

----------------------------------------------------------------------------
(* C8 *)

\* C8: with skip-failures, once the output is opened the run completes with
\* exit code 0, and every feature whose own processing and write succeed is
\* in the output.
C8_SkipFailuresNeverBlocks ==
    (opts.skip_failures /\ OutputOpened /\ Exited) =>
        /\ exit_code = 0
        /\ \A i \in 1..NumFeats :
              (~ProcessingFails(src.feats[i]) /\ ~WriteFails(src.feats[i])) =>
                  IsWritten(ExpectedFeature(src.feats[i]))

----------------------------------------------------------------------------
(* C10 *)

Dropped == {i \in 1..NumFeats : ProcessingFails(src.feats[i]) \/ WriteFails(src.feats[i])}

\* where the task of feature i is
Queued(i) == \E k \in DOMAIN taskq : taskq[k].feat.id = i

Held(i) == \E t \in inflight : t.feat.id = i

C10_Accounting ==
    /\ \A i \in 1..NumFeats :
          /\ calls[i] <= 1
          /\ i >= next_feat => (~Queued(i) /\ ~Held(i) /\ calls[i] = 0)
          /\ i < next_feat =>
                \/ Queued(i) /\ ~Held(i) /\ calls[i] = 0
                \/ ~Queued(i) /\ Held(i) /\ calls[i] = 0
                \/ ~Queued(i) /\ ~Held(i) /\ calls[i] = 1
    /\ Len(taskq) = Cardinality({i \in 1..NumFeats : Queued(i)})
    /\ \A k, l \in DOMAIN written : written[k].id = written[l].id => k = l
    /\ \A k \in DOMAIN written : calls[written[k].id] = 1
    /\ CompletedNormally =>
          /\ \A i \in 1..NumFeats : calls[i] = 1
          /\ Len(written) = NumFeats - Cardinality(Dropped)
          /\ NoFailures => Len(written) = NumFeats

\* only the write loop of the main process adds to the output, and it adds
\* the one feature it pulled from the pool
C10_OnlyMainWrites ==
    written' # written =>
        /\ pc = "body"
        /\ written' = Append(written, o_feat)
        /\ UNCHANGED <<next_feat, taskq, inflight, resultq, calls>>

\* C10: each input feature yields one task, each task is processed once,
\* each feature is written at most once and only by the main process; at
\* normal completion the output holds as many features as were read minus
\* those dropped by a suppressed failure.
C10_ExactlyOnce ==
    /\ []C10_Accounting
    /\ [][C10_OnlyMainWrites]_vars

\* a run that dropped one feature and wrote the other
C10_Witness ==
    /\ CompletedNormally
    /\ NumFeats = 2
    /\ Cardinality(Dropped) = 1
    /\ Len(written) = 1

----------------------------------------------------------------------------
(* C11 *)

\* the CRS a geometry is expressed in: the CRS the dataset's geometries are
\* read in, then the target of the last reprojection applied; buffering keeps
\* the CRS
RECURSIVE CrsAfter(_, _)
CrsAfter(ops, crs) ==
    IF ops = <<>>
    THEN crs
    ELSE CrsAfter(Tail(ops), IF Head(ops).op = "transform" THEN Head(ops).dst ELSE crs)

\* C11: every feature written to the output has its geometry expressed in the
\* CRS the output dataset was opened with, whatever the CRS options and the
\* distance, features with a null distance field included.
C11_WrittenInOutputCrs ==
    \A k \in DOMAIN written :
        CrsAfter(written[k].geometry.ops, ExpectedSrcCrs) = dst.crs

====
